---- MODULE Spec2Model ----
(***************************************************************************)
(* Word-to-column mapper: the normalizer, the forward and reverse indexes, *)
(* the IndexManager that keeps them together, also under concurrent        *)
(* callers, the SearchEngine with its statistics, the FuzzyMatcher, and    *)
(* the table relationship traversal.                                       *)
(*                                                                         *)
(* A Python str is a sequence of one-character strings, a list is a        *)
(* sequence, an insertion-ordered dict whose order is observable is a      *)
(* sequence of entries, Optional[T] is a sequence of length 0 (None) or 1. *)
(***************************************************************************)
EXTENDS Integers, Sequences, FiniteSets, TLC

VARIABLES index_manager, stats, last, calls

vars == <<index_manager, stats, last, calls>>

(***************************************************************************)
(* Bounds and input sets                                                   *)
(***************************************************************************)

\* cap on ForwardIndex._stats["total_mappings"], which only clear() lowers
MaxMappings == 3

\* cap on SearchEngine._stats["total_queries"]
MaxQueries == 2

\* longest text handed to normalize
MaxTextLen == 3

Columns == {"c1", "c2"}

ColumnLists == {<<>>, <<"c1">>, <<"c2">>, <<"c1", "c2">>}

\* the empty word, case variants, a delimiter variant and an unrelated word
Words == {<<>>, <<"a">>, <<"A">>, <<"-", "a">>, <<"b">>}

None == <<>>

Some(v) == <<v>>

EmptyMap == [x \in {} |-> <<>>]

Max(a, b) == IF a >= b THEN a ELSE b

Abs(a) == IF a >= 0 THEN a ELSE 0 - a

Range(s) == {s[i] : i \in 1..Len(s)}

(***************************************************************************)
(* TextNormalizer                                                          *)
(***************************************************************************)

\* str.lower() on one character
Lower(c) ==
    CASE c = "A" -> "a"
      [] c = "B" -> "b"
      [] c = "C" -> "c"
      [] c = "H" -> "h"
      [] OTHER -> c

\* unicodedata.normalize('NFKD', .) on one character: "U210B" stands for the
\* script capital H, whose compatibility decomposition is "H"
NFKD(c) == IF c = "U210B" THEN <<"H">> ELSE <<c>>

IsSpace(c) == c \in {" ", "\t"}

RECURSIVE MapLower(_)
MapLower(s) == IF s = <<>> THEN <<>> ELSE <<Lower(Head(s))>> \o MapLower(Tail(s))

RECURSIVE MapNFKD(_)
MapNFKD(s) == IF s = <<>> THEN <<>> ELSE NFKD(Head(s)) \o MapNFKD(Tail(s))

RECURSIVE DropSpaces(_)
DropSpaces(s) ==
    IF s # <<>> /\ IsSpace(Head(s)) THEN DropSpaces(Tail(s)) ELSE s

\* delimiter_regex.sub('_', .): each hyphen or underscore, and each run of
\* whitespace, becomes one underscore
RECURSIVE DelimiterSub(_)
DelimiterSub(s) ==
    IF s = <<>> THEN <<>>
    ELSE IF Head(s) \in {"-", "_"} THEN <<"_">> \o DelimiterSub(Tail(s))
    ELSE IF IsSpace(Head(s)) THEN <<"_">> \o DelimiterSub(DropSpaces(Tail(s)))
    ELSE <<Head(s)>> \o DelimiterSub(Tail(s))

\* re.sub(r'_+', '_', .)
RECURSIVE CollapseUnderscores(_)
CollapseUnderscores(s) ==
    IF s = <<>> THEN <<>>
    ELSE IF Len(s) >= 2 /\ s[1] = "_" /\ s[2] = "_" THEN CollapseUnderscores(Tail(s))
    ELSE <<Head(s)>> \o CollapseUnderscores(Tail(s))

RECURSIVE LStrip(_, _)
LStrip(s, chars) ==
    IF s # <<>> /\ Head(s) \in chars THEN LStrip(Tail(s), chars) ELSE s

RECURSIVE RStrip(_, _)
RStrip(s, chars) ==
    IF s # <<>> /\ s[Len(s)] \in chars THEN RStrip(SubSeq(s, 1, Len(s) - 1), chars) ELSE s

\* str.strip(chars)
Strip(s, chars) == RStrip(LStrip(s, chars), chars)

\* str.strip()
StripSpaces(s) == Strip(s, {" ", "\t"})

normalize(text) ==
    IF text = <<>> THEN <<>>
    ELSE Strip(CollapseUnderscores(DelimiterSub(MapNFKD(MapLower(text)))), {"_"})

(***************************************************************************)
(* Insertion-ordered dict (ForwardIndex._index): entries [key, value]      *)
(***************************************************************************)

DictKeys(d) == {d[i].key : i \in 1..Len(d)}

DictGet(d, k) == d[CHOOSE i \in 1..Len(d) : d[i].key = k].value

\* d[k] = v: an existing key keeps its place, a new key goes last
DictSet(d, k, v) ==
    IF k \in DictKeys(d)
    THEN [i \in 1..Len(d) |-> IF d[i].key = k THEN [key |-> k, value |-> v] ELSE d[i]]
    ELSE Append(d, [key |-> k, value |-> v])

\* del d[k]
DictDel(d, k) == SelectSeq(d, LAMBDA e : e.key # k)

\* m[k] = v and del m[k] on a dict whose order is not observable
MapSet(m, k, v) == [x \in DOMAIN m \cup {k} |-> IF x = k THEN v ELSE m[x]]

MapDel(m, k) == [x \in DOMAIN m \ {k} |-> m[x]]

(***************************************************************************)
(* ForwardIndex: [index, normalized_index, total_words, total_mappings]    *)
(***************************************************************************)

ForwardIndex_init ==
    [index |-> <<>>, normalized_index |-> EmptyMap,
     total_words |-> 0, total_mappings |-> 0]

\* mutant: a word that is already indexed adds nothing to total_mappings
ForwardIndex_add_mapping_new_only(F, word, columns) ==
    IF word = <<>> \/ columns = <<>> THEN F
    ELSE [index |-> DictSet(F.index, word, columns),
          normalized_index |-> MapSet(F.normalized_index, normalize(word), word),
          total_words |-> Len(DictSet(F.index, word, columns)),
          total_mappings |-> IF word \in DictKeys(F.index) THEN F.total_mappings
                             ELSE F.total_mappings + Len(columns)]

ForwardIndex_add_mapping(F, word, columns) ==
    IF word = <<>> \/ columns = <<>> THEN F
    ELSE [index |-> DictSet(F.index, word, columns),
          normalized_index |-> MapSet(F.normalized_index, normalize(word), word),
          total_words |-> Len(DictSet(F.index, word, columns)),
          total_mappings |-> F.total_mappings + Len(columns)]

ForwardIndex_get_columns(F, word) ==
    IF word \in DictKeys(F.index) THEN Some(DictGet(F.index, word))
    ELSE IF normalize(word) \in DOMAIN F.normalized_index
         THEN Some(DictGet(F.index, F.normalized_index[normalize(word)]))
         ELSE None

ForwardIndex_get_all_words(F) == [i \in 1..Len(F.index) |-> F.index[i].key]

\* mutant: the alias of the removed word is kept
ForwardIndex_remove_mapping_keep_alias(F, word) ==
    IF word \in DictKeys(F.index)
    THEN [F EXCEPT !.index = DictDel(F.index, word),
                   !.total_words = Len(DictDel(F.index, word))]
    ELSE F

\* the index after remove_mapping(word); the call returns ForwardIndex_removes
ForwardIndex_remove_mapping(F, word) ==
    IF word \in DictKeys(F.index)
    THEN [F EXCEPT !.index = DictDel(F.index, word),
                   !.normalized_index =
                       IF normalize(word) \in DOMAIN F.normalized_index
                       THEN MapDel(F.normalized_index, normalize(word))
                       ELSE F.normalized_index,
                   !.total_words = Len(DictDel(F.index, word))]
    ELSE F

ForwardIndex_removes(F, word) == word \in DictKeys(F.index)

ForwardIndex_clear(F) == ForwardIndex_init

\* _stats["total_words"], set to len(_index) by add_mapping and remove_mapping
ForwardIndex_total_words(F) == F.total_words

(***************************************************************************)
(* ReverseIndex: [index], a defaultdict(list) column -> words              *)
(***************************************************************************)

ReverseIndex_init == [index |-> EmptyMap]

\* one pass of the loop body: self._index[column] creates the entry
ReverseIndex_add_one(R, word, column) ==
    LET cur == IF column \in DOMAIN R.index THEN R.index[column] ELSE <<>>
    IN  [index |-> MapSet(R.index, column,
                          IF word \in Range(cur) THEN cur ELSE Append(cur, word))]

RECURSIVE ReverseIndex_add_loop(_, _, _)
ReverseIndex_add_loop(R, word, columns) ==
    IF columns = <<>> THEN R
    ELSE ReverseIndex_add_loop(ReverseIndex_add_one(R, word, Head(columns)),
                               word, Tail(columns))

\* mutant: the loop stops after the first column
ReverseIndex_add_mapping_first_only(R, word, columns) ==
    IF word = <<>> \/ columns = <<>> THEN R
    ELSE ReverseIndex_add_one(R, word, Head(columns))

ReverseIndex_add_mapping(R, word, columns) ==
    IF word = <<>> \/ columns = <<>> THEN R
    ELSE ReverseIndex_add_loop(R, word, columns)

ReverseIndex_get_words(R, column) ==
    IF column \in DOMAIN R.index THEN Some(R.index[column]) ELSE None

ReverseIndex_get_all_columns(R) == DOMAIN R.index

\* list.remove(x): drops the first occurrence
ListRemove(s, x) ==
    LET i == CHOOSE j \in 1..Len(s) : s[j] = x /\ \A k \in 1..(j - 1) : s[k] # x
    IN  SubSeq(s, 1, i - 1) \o SubSeq(s, i + 1, Len(s))

\* mutant: the emptied column entry is kept
ReverseIndex_remove_one_no_prune(R, word, column) ==
    IF column \in DOMAIN R.index /\ word \in Range(R.index[column])
    THEN [index |-> MapSet(R.index, column, ListRemove(R.index[column], word))]
    ELSE R

ReverseIndex_remove_one(R, word, column) ==
    IF column \in DOMAIN R.index /\ word \in Range(R.index[column])
    THEN LET rest == ListRemove(R.index[column], word)
         IN  IF rest = <<>> THEN [index |-> MapDel(R.index, column)]
             ELSE [index |-> MapSet(R.index, column, rest)]
    ELSE R

RECURSIVE ReverseIndex_remove_mapping(_, _, _)
ReverseIndex_remove_mapping(R, word, columns) ==
    IF columns = <<>> THEN R
    ELSE ReverseIndex_remove_mapping(ReverseIndex_remove_one(R, word, Head(columns)),
                                     word, Tail(columns))

ReverseIndex_clear(R) == ReverseIndex_init

(***************************************************************************)
(* IndexManager: [forward_index, reverse_index, lock]                      *)
(***************************************************************************)

IndexManager_init ==
    [forward_index |-> ForwardIndex_init,
     reverse_index |-> ReverseIndex_init,
     lock |-> FALSE]

\* the flag is set, both indexes are written, the flag is cleared
IndexManager_add_mapping(M, word, columns) ==
    IF M.lock THEN M
    ELSE [forward_index |-> ForwardIndex_add_mapping(M.forward_index, word, columns),
          reverse_index |-> ReverseIndex_add_mapping(M.reverse_index, word, columns),
          lock |-> FALSE]

\* "if not columns": None or an empty list
Falsy(opt) == opt = None \/ opt[1] = <<>>

\* [m |-> the manager afterwards, ret |-> the value returned]
IndexManager_remove_mapping(M, word) ==
    IF M.lock THEN [m |-> M, ret |-> FALSE]
    ELSE LET columns == ForwardIndex_get_columns(M.forward_index, word)
         IN  IF Falsy(columns) THEN [m |-> M, ret |-> FALSE]
             ELSE [m |-> [forward_index |->
                              ForwardIndex_remove_mapping(M.forward_index, word),
                          reverse_index |->
                              ReverseIndex_remove_mapping(M.reverse_index, word,
                                                          columns[1]),
                          lock |-> FALSE],
                   ret |-> TRUE]

IndexManager_update_mapping(M, word, columns) ==
    IndexManager_add_mapping(IndexManager_remove_mapping(M, word).m, word, columns)

\* mutant: the reverse index is left as it is
IndexManager_clear_forward_only(M) ==
    [M EXCEPT !.forward_index = ForwardIndex_clear(M.forward_index)]

IndexManager_clear(M) ==
    [M EXCEPT !.forward_index = ForwardIndex_clear(M.forward_index),
              !.reverse_index = ReverseIndex_clear(M.reverse_index)]

(***************************************************************************)
(* State                                                                   *)
(***************************************************************************)

Stats_init ==
    [total_queries |-> 0, exact_matches |-> 0, fuzzy_matches |-> 0,
     no_matches |-> 0, total_execution_time |-> 0,
     cache_hits |-> 0, cache_misses |-> 0]

\* the last call made: its name, its arguments and what it returned
NoCall == [op |-> "init", word |-> <<>>, columns |-> <<>>, ret |-> FALSE]

\* calls holds the frames of the calls in flight; a call that runs to its end
\* within one step leaves none
NoFrames == <<>>

Init ==
    /\ index_manager = IndexManager_init
    /\ stats = Stats_init
    /\ last = NoCall
    /\ calls = NoFrames

\* the cumulative counter stays within the model's cap
Fits(M) == M.forward_index.total_mappings <= MaxMappings

add_mapping(word, columns) ==
    /\ Fits(IndexManager_add_mapping(index_manager, word, columns))
    /\ index_manager' = IndexManager_add_mapping(index_manager, word, columns)
    /\ last' = [op |-> "add_mapping", word |-> <<>>, columns |-> <<>>, ret |-> FALSE]
    /\ UNCHANGED <<stats, calls>>

remove_mapping(word) ==
    /\ index_manager' = IndexManager_remove_mapping(index_manager, word).m
    /\ last' = [op |-> "remove_mapping", word |-> word, columns |-> <<>>,
                ret |-> IndexManager_remove_mapping(index_manager, word).ret]
    /\ UNCHANGED <<stats, calls>>

update_mapping(word, columns) ==
    /\ Fits(IndexManager_update_mapping(index_manager, word, columns))
    /\ index_manager' = IndexManager_update_mapping(index_manager, word, columns)
    /\ last' = [op |-> "update_mapping", word |-> word, columns |-> columns, ret |-> FALSE]
    /\ UNCHANGED <<stats, calls>>

clear ==
    /\ index_manager' = IndexManager_clear(index_manager)
    /\ last' = [op |-> "clear", word |-> <<>>, columns |-> <<>>, ret |-> FALSE]
    /\ UNCHANGED <<stats, calls>>

Next ==
    \/ \E word \in Words, columns \in ColumnLists : add_mapping(word, columns)
    \/ \E word \in Words : remove_mapping(word)
    \/ \E word \in Words, columns \in ColumnLists : update_mapping(word, columns)
    \/ clear

Spec == Init /\ [][Next]_vars

(***************************************************************************)
(* FuzzyMatcher and the SearchResult / SearchResponse models               *)
(***************************************************************************)

\* rapidfuzz Levenshtein.distance (uniform weights)
RECURSIVE Levenshtein(_, _)
Levenshtein(s, t) ==
    IF s = <<>> THEN Len(t)
    ELSE IF t = <<>> THEN Len(s)
    ELSE IF Head(s) = Head(t) THEN Levenshtein(Tail(s), Tail(t))
    ELSE 1 + LET del == Levenshtein(Tail(s), t)
                 ins == Levenshtein(s, Tail(t))
                 sub == Levenshtein(Tail(s), Tail(t))
             IN  IF del <= ins /\ del <= sub THEN del
                 ELSE IF ins <= sub THEN ins ELSE sub

\* longest common subsequence, which decides rapidfuzz's fuzz.ratio
RECURSIVE LCS(_, _)
LCS(s, t) ==
    IF s = <<>> \/ t = <<>> THEN 0
    ELSE IF Head(s) = Head(t) THEN 1 + LCS(Tail(s), Tail(t))
    ELSE Max(LCS(Tail(s), t), LCS(s, Tail(t)))

FuzzyMatcher_get_edit_operations(query, target) ==
    IF query = target THEN [text |-> "No changes", n |-> 0]
    ELSE IF Len(query) < Len(target)
         THEN [text |-> "Insert", n |-> Len(target) - Len(query)]
    ELSE IF Len(query) > Len(target)
         THEN [text |-> "Delete", n |-> Len(query) - Len(target)]
    ELSE [text |-> "Substitute", n |-> Levenshtein(query, target)]

\* SearchEngine(fuzzy_threshold=0.6), in hundredths
fuzzy_threshold == 60

\* _get_suggestions(query, max_suggestions=5)
max_suggestions == 5

\* fuzz.ratio(a, b) >= threshold * 100, with ratio = 100 * 2 LCS / (len a + len b)
RatioMeetsThreshold(a, b) ==
    IF Len(a) + Len(b) = 0 THEN TRUE
    ELSE 100 * 2 * LCS(a, b) >= fuzzy_threshold * (Len(a) + Len(b))

\* a has a strictly better fuzz.ratio against q than b
RatioBetter(q, a, b) ==
    IF Len(q) + Len(b) = 0 THEN FALSE
    ELSE IF Len(q) + Len(a) = 0 THEN TRUE
    ELSE LCS(q, a) * (Len(q) + Len(b)) > LCS(q, b) * (Len(q) + Len(a))

\* process.extract orders the candidates by score, best first, equal scores in
\* input order
RECURSIVE ExtractOrder(_, _)
ExtractOrder(query, candidates) ==
    IF candidates = <<>> THEN <<>>
    ELSE LET rest == ExtractOrder(query, SubSeq(candidates, 1, Len(candidates) - 1))
             x == candidates[Len(candidates)]
             k == Cardinality({i \in 1..Len(rest) : ~RatioBetter(query, x, rest[i])})
         IN  SubSeq(rest, 1, k) \o <<x>> \o SubSeq(rest, k + 1, Len(rest))

\* s[:n]
PySlice(s, n) ==
    IF n >= 0 THEN SubSeq(s, 1, IF n <= Len(s) THEN n ELSE Len(s))
    ELSE SubSeq(s, 1, Max(Len(s) + n, 0))

FuzzyMatcher_suggest_corrections(query, candidates) ==
    IF query = <<>> \/ candidates = <<>> THEN <<>>
    ELSE SelectSeq(PySlice(ExtractOrder(query, candidates), max_suggestions),
                   LAMBDA c : RatioMeetsThreshold(query, c))

\* a confidence is the exact fraction num / den, den > 0
Exactly(n) == [num |-> n, den |-> 1]

\* mutant: confidence is declared without its range
SearchResult_valid_unbounded(result) == TRUE

\* SearchResult: confidence is declared ge=0.0, le=1.0, so the constructor
\* raises a ValidationError for any other value
SearchResult_valid(result) ==
    /\ result.confidence.num >= 0
    /\ result.confidence.num <= result.confidence.den

\* SearchResponse: the fields declared Field(...) have no default and must be
\* passed to the constructor, which raises a ValidationError otherwise
SearchResponse_required ==
    {"query", "execution_time_ms", "exact_match", "total_results", "results",
     "total_unique_columns", "total_all_columns", "cache_hit"}

SearchResponse_valid(kwargs) == SearchResponse_required \subseteq DOMAIN kwargs

(***************************************************************************)
(* SearchEngine                                                            *)
(***************************************************************************)

\* mutant: the Levenshtein distance alone
EditDistance_levenshtein(normalized_query, normalized_word) ==
    Levenshtein(normalized_query, normalized_word)

\* total_changes: the length difference plus the Levenshtein distance
EditDistance(normalized_query, normalized_word) ==
    Abs(Len(normalized_query) - Len(normalized_word))
        + Levenshtein(normalized_query, normalized_word)

\* mutant: the distance filter lets every word through
WithinEditDistance_always(edit_distance, max_edit_distance) == TRUE

\* "if edit_distance <= max_edit_distance"
WithinEditDistance(edit_distance, max_edit_distance) ==
    edit_distance <= max_edit_distance

\* the SearchResult built for one word that passed the distance filter
ResultFor(F, query, word) ==
    LET normalized_query == normalize(query)
        normalized_word == normalize(word)
        edit_distance == EditDistance(normalized_query, normalized_word)
        max_len == Max(Len(normalized_query), Len(normalized_word))
    IN  [word |-> word,
         confidence |->
             IF edit_distance = 0 THEN Exactly(1)
             ELSE IF max_len > 0 THEN [num |-> max_len - edit_distance, den |-> max_len]
             ELSE Exactly(0),
         match_type |-> IF edit_distance = 0 THEN "exact" ELSE "fuzzy_levenshtein",
         columns |-> ForwardIndex_get_columns(F, word)[1],
         edit_distance |-> edit_distance,
         changes |-> IF edit_distance = 0 THEN None
                     ELSE Some(FuzzyMatcher_get_edit_operations(query, word))]

\* key(a) <= key(b) for key = (edit_distance, -confidence)
SortKeyLE(a, b) ==
    \/ a.edit_distance < b.edit_distance
    \/ /\ a.edit_distance = b.edit_distance
       /\ a.confidence.num * b.confidence.den >= b.confidence.num * a.confidence.den

\* mutant: the results stay in index order
SortResults_unsorted(results) == results

\* list.sort(key=...): stable
RECURSIVE SortResults(_)
SortResults(results) ==
    IF results = <<>> THEN <<>>
    ELSE LET rest == SortResults(SubSeq(results, 1, Len(results) - 1))
             x == results[Len(results)]
             k == Cardinality({i \in 1..Len(rest) : SortKeyLE(rest[i], x)})
         IN  SubSeq(rest, 1, k) \o <<x>> \o SubSeq(rest, k + 1, Len(rest))

\* mutant: the sorted list is returned whole
Truncate_none(results, max_results) == results

\* results[:max_results]
Truncate(results, max_results) == PySlice(results, max_results)

\* the words, in index order, for which a SearchResult is constructed
Candidates(F, query, max_edit_distance) ==
    SelectSeq(ForwardIndex_get_all_words(F),
              LAMBDA word :
                  /\ WithinEditDistance(EditDistance(normalize(query), normalize(word)),
                                        max_edit_distance)
                  /\ ~Falsy(ForwardIndex_get_columns(F, word)))

\* [raised |-> a SearchResult constructor raised, results |-> the list returned]
SearchEngine_fuzzy_search_with_edit_distance(F, query, max_results, max_edit_distance) ==
    LET words == Candidates(F, query, max_edit_distance)
        results == [i \in 1..Len(words) |-> ResultFor(F, query, words[i])]
    IN  IF \E i \in 1..Len(results) : ~SearchResult_valid(results[i])
        THEN [raised |-> TRUE, results |-> <<>>]
        ELSE [raised |-> FALSE,
              results |-> Truncate(SortResults(results), max_results)]

SearchEngine_get_suggestions(F, query) ==
    FuzzyMatcher_suggest_corrections(query, ForwardIndex_get_all_words(F))

RECURSIVE ColumnsOf(_)
ColumnsOf(results) ==
    IF results = <<>> THEN {}
    ELSE Range(Head(results).columns) \cup ColumnsOf(Tail(results))

\* the keyword arguments _create_empty_response passes to SearchResponse
EmptyResponseArgs(query, elapsed) ==
    [query |-> query, execution_time_ms |-> elapsed, exact_match |-> FALSE,
     total_results |-> 0, results |-> <<>>, total_unique_columns |-> {},
     cache_hit |-> FALSE, suggestions |-> None]

\* what a call leaves behind: the statistics, the list the scan returned, the
\* arguments handed to SearchResponse, the exception raised ("" when none) and
\* the response returned (None when the call raised)
Outcome(st, results, kwargs, raised) ==
    [stats |-> st, results |-> results, kwargs |-> kwargs, raised |-> raised,
     ret |-> IF raised = "" THEN kwargs ELSE None]

Construct(st, results, kwargs) ==
    Outcome(st, results, Some(kwargs),
            IF SearchResponse_valid(kwargs) THEN "" ELSE "SearchResponse")

\* elapsed stands for the wall-clock time between the two time.time() calls
SearchEngine_search(F, st, query, max_results, include_suggestions, max_edit_distance, elapsed) ==
    IF query = <<>> \/ StripSpaces(query) = <<>>
    THEN Construct(st, <<>>, EmptyResponseArgs(query, elapsed))
    ELSE LET q == StripSpaces(query)
             counted == [st EXCEPT !.total_queries = @ + 1]
             scan == SearchEngine_fuzzy_search_with_edit_distance(
                         F, q, max_results, max_edit_distance)
             all_results == scan.results
             has_exact_match ==
                 \E i \in 1..Len(all_results) : all_results[i].match_type = "exact"
         IN  IF scan.raised THEN Outcome(counted, <<>>, None, "SearchResult")
             ELSE IF all_results # <<>>
             THEN Construct(
                      [counted EXCEPT
                           !.exact_matches = IF has_exact_match THEN @ + 1 ELSE @,
                           !.fuzzy_matches = IF has_exact_match THEN @ ELSE @ + 1,
                           !.total_execution_time = @ + elapsed],
                      all_results,
                      [query |-> q, execution_time_ms |-> elapsed,
                       exact_match |-> has_exact_match,
                       total_results |-> Len(all_results), results |-> all_results,
                       total_unique_columns |-> ColumnsOf(all_results),
                       cache_hit |-> FALSE, suggestions |-> None])
             ELSE Construct(
                      [counted EXCEPT !.no_matches = @ + 1,
                                      !.total_execution_time = @ + elapsed],
                      all_results,
                      [query |-> q, execution_time_ms |-> elapsed,
                       exact_match |-> FALSE, total_results |-> 0, results |-> <<>>,
                       total_unique_columns |-> {}, cache_hit |-> FALSE,
                       suggestions |->
                           IF include_suggestions
                           THEN Some(SearchEngine_get_suggestions(F, q))
                           ELSE None])

\* n / total_queries, and 0.0 when no query was counted
Rate(n, total_queries) ==
    IF total_queries > 0 THEN [num |-> n, den |-> total_queries] ELSE Exactly(0)

RECURSIVE SumLen(_, _)
SumLen(index, columns) ==
    IF columns = {} THEN 0
    ELSE LET column == CHOOSE c \in columns : TRUE
         IN  Len(index[column]) + SumLen(index, columns \ {column})

\* the statistics the two indexes keep, recomputed by every mutation
IndexManager_get_stats(M) ==
    [forward_index |-> [total_words |-> ForwardIndex_total_words(M.forward_index),
                        total_mappings |-> M.forward_index.total_mappings],
     reverse_index |-> [total_columns |-> Cardinality(DOMAIN M.reverse_index.index),
                        total_mappings |-> SumLen(M.reverse_index.index,
                                                  DOMAIN M.reverse_index.index)],
     total_unique_columns |-> Cardinality(ReverseIndex_get_all_columns(M.reverse_index))]

SearchEngine_get_stats(M, st) ==
    [counters |-> st,
     average_execution_time_ms |-> Rate(st.total_execution_time, st.total_queries),
     exact_match_rate |-> Rate(st.exact_matches, st.total_queries),
     fuzzy_match_rate |-> Rate(st.fuzzy_matches, st.total_queries),
     no_match_rate |-> Rate(st.no_matches, st.total_queries),
     index_stats |-> IndexManager_get_stats(M)]

RECURSIVE SearchEngine_load_mappings(_, _)
SearchEngine_load_mappings(M, mappings) ==
    IF mappings = <<>> THEN M
    ELSE SearchEngine_load_mappings(
             IndexManager_add_mapping(M, Head(mappings).key, Head(mappings).value),
             Tail(mappings))

(***************************************************************************)
(* The SearchEngine surface: load_mappings, search, clear                  *)
(***************************************************************************)

\* dicts handed to load_mappings: case variants, a longer word, two entries
EngineMappings ==
    {<<[key |-> <<"a">>, value |-> <<"c1">>]>>,
     <<[key |-> <<"A">>, value |-> <<"c1", "c2">>]>>,
     <<[key |-> <<"a", "d", "b">>, value |-> <<"c2">>]>>,
     <<[key |-> <<"a">>, value |-> <<"c1">>],
       [key |-> <<"a", "d", "b">>, value |-> <<"c2">>]>>}

Queries == {<<>>, <<" ">>, <<"a">>, <<" ", "A">>, <<"a", "b", "c">>}

\* max_results, max_edit_distance, include_suggestions: the defaults, and each
\* one varied
SearchArgs ==
    {[max_results |-> 10, max_edit_distance |-> 5, include_suggestions |-> TRUE],
     [max_results |-> 1, max_edit_distance |-> 5, include_suggestions |-> TRUE],
     [max_results |-> -1, max_edit_distance |-> 5, include_suggestions |-> TRUE],
     [max_results |-> 10, max_edit_distance |-> 1, include_suggestions |-> TRUE],
     [max_results |-> 10, max_edit_distance |-> 1, include_suggestions |-> FALSE]}

ElapsedTimes == {0, 1}

load_mappings(mappings) ==
    /\ Fits(SearchEngine_load_mappings(index_manager, mappings))
    /\ index_manager' = SearchEngine_load_mappings(index_manager, mappings)
    /\ last' = [op |-> "load_mappings"]
    /\ UNCHANGED <<stats, calls>>

search(query, max_results, include_suggestions, max_edit_distance, elapsed) ==
    /\ stats.total_queries < MaxQueries
    /\ \E out \in {SearchEngine_search(index_manager.forward_index, stats, query,
                                       max_results, include_suggestions,
                                       max_edit_distance, elapsed)} :
           /\ stats' = out.stats
           /\ last' = [op |-> "search", query |-> query, max_results |-> max_results,
                       max_edit_distance |-> max_edit_distance,
                       include_suggestions |-> include_suggestions,
                       results |-> out.results, kwargs |-> out.kwargs,
                       raised |-> out.raised, ret |-> out.ret]
    /\ UNCHANGED <<index_manager, calls>>

\* last notes whether there were words and counted queries to clear
engine_clear ==
    /\ index_manager' = IndexManager_clear(index_manager)
    /\ stats' = Stats_init
    /\ last' = [op |-> "clear",
                had_words |-> index_manager.forward_index.index # <<>>,
                had_queries |-> stats.total_queries > 0]
    /\ UNCHANGED calls

NextEngine ==
    \/ \E mappings \in EngineMappings : load_mappings(mappings)
    \/ \E query \in Queries, args \in SearchArgs, elapsed \in ElapsedTimes :
           search(query, args.max_results, args.include_suggestions,
                  args.max_edit_distance, elapsed)
    \/ engine_clear

SpecEngine == Init /\ [][NextEngine]_vars

(***************************************************************************)
(* The ReverseIndex used on its own                                        *)
(***************************************************************************)

\* column lists handed to the reverse index directly, one with a duplicate
ReverseColumnLists == ColumnLists \cup {<<"c1", "c1">>}

ReverseOnly(R, op) ==
    /\ index_manager' = [index_manager EXCEPT !.reverse_index = R]
    /\ last' = [op |-> op, word |-> <<>>, columns |-> <<>>, ret |-> FALSE]
    /\ UNCHANGED <<stats, calls>>

reverse_add_mapping(word, columns) ==
    ReverseOnly(ReverseIndex_add_mapping(index_manager.reverse_index, word, columns),
                "reverse_add_mapping")

reverse_remove_mapping(word, columns) ==
    ReverseOnly(ReverseIndex_remove_mapping(index_manager.reverse_index, word, columns),
                "reverse_remove_mapping")

reverse_clear ==
    ReverseOnly(ReverseIndex_clear(index_manager.reverse_index), "reverse_clear")

NextReverse ==
    \/ \E word \in Words, columns \in ReverseColumnLists :
           reverse_add_mapping(word, columns)
    \/ \E word \in Words, columns \in ReverseColumnLists :
           reverse_remove_mapping(word, columns)
    \/ reverse_clear

SpecReverse == Init /\ [][NextReverse]_vars

(***************************************************************************)
(* The ForwardIndex used on its own                                        *)
(***************************************************************************)

ForwardOnly(F, op, word, columns, ret) ==
    /\ F.total_mappings <= MaxMappings
    /\ index_manager' = [index_manager EXCEPT !.forward_index = F]
    /\ last' = [op |-> op, word |-> word, columns |-> columns, ret |-> ret]
    /\ UNCHANGED <<stats, calls>>

forward_add_mapping(word, columns) ==
    ForwardOnly(ForwardIndex_add_mapping(index_manager.forward_index, word, columns),
                "forward_add_mapping", word, columns, FALSE)

forward_remove_mapping(word) ==
    ForwardOnly(ForwardIndex_remove_mapping(index_manager.forward_index, word),
                "forward_remove_mapping", word, <<>>,
                ForwardIndex_removes(index_manager.forward_index, word))

forward_clear ==
    ForwardOnly(ForwardIndex_clear(index_manager.forward_index),
                "forward_clear", <<>>, <<>>, FALSE)

NextForward ==
    \/ \E word \in Words, columns \in ColumnLists : forward_add_mapping(word, columns)
    \/ \E word \in Words : forward_remove_mapping(word)
    \/ forward_clear

SpecForward == Init /\ [][NextForward]_vars

(***************************************************************************)
(* The SearchEngine over the vocabulary of the typo tests                  *)
(***************************************************************************)

\* "date" as in the tests' sample_mappings, with one and two columns, and a
\* second word one edit away from it
TypoMappings ==
    {<<[key |-> <<"d", "a", "t", "e">>, value |-> <<"c1">>]>>,
     <<[key |-> <<"d", "a", "t", "e">>, value |-> <<"c1", "c2">>]>>,
     <<[key |-> <<"d", "a", "t", "a">>, value |-> <<"c2">>]>>}

\* "dat" (the missing 'e' of the tests), padded, and the word itself
TypoQueries == {<<"d", "a", "t">>, <<"d", "a", "t", " ">>, <<"d", "a", "t", "e">>}

NextTypo ==
    \/ \E mappings \in TypoMappings : load_mappings(mappings)
    \/ \E query \in TypoQueries, args \in SearchArgs, elapsed \in ElapsedTimes :
           search(query, args.max_results, args.include_suggestions,
                  args.max_edit_distance, elapsed)
    \/ engine_clear

SpecTypo == Init /\ [][NextTypo]_vars

(***************************************************************************)
(* Lookups: get_columns, reverse_search, intersection_search, union_search *)
(***************************************************************************)

\* list(a_set): each element once, in an order the string hashing decides
Orderings(S) == {s \in [1..Cardinality(S) -> S] : Range(s) = S}

SearchEngine_reverse_search(R, column_id, elapsed) ==
    LET words == ReverseIndex_get_words(R, column_id)
    IN  IF Falsy(words) THEN None
        ELSE Some([column_id |-> column_id, words |-> words[1],
                   total_mappings |-> Len(words[1]),
                   execution_time_ms |-> elapsed])

\* set(columns) for every word whose columns are found, in the order of words
RECURSIVE WordColumns(_, _)
WordColumns(F, words) ==
    IF words = <<>> THEN <<>>
    ELSE LET columns == ForwardIndex_get_columns(F, Head(words))
         IN  (IF Falsy(columns) THEN <<>> ELSE <<Range(columns[1])>>)
                 \o WordColumns(F, Tail(words))

\* the loop "intersection = intersection.intersection(columns)"
RECURSIVE Intersect(_, _)
Intersect(intersection, sets) ==
    IF sets = <<>> THEN intersection
    ELSE Intersect(intersection \cap Head(sets), Tail(sets))

\* the values the call may return
SearchEngine_intersection_search(F, words, elapsed) ==
    IF Len(words) < 2 THEN {None}
    ELSE LET word_columns == WordColumns(F, words)
         IN  IF word_columns = <<>> THEN {None}
             ELSE LET intersection == Intersect(Head(word_columns), Tail(word_columns))
                  IN  IF intersection = {} THEN {None}
                      ELSE {Some([query_words |-> words,
                                  intersection_columns |-> o,
                                  operation |-> "AND",
                                  execution_time_ms |-> elapsed,
                                  total_common_columns |-> Cardinality(intersection)]) :
                               o \in Orderings(intersection)}

\* the loop "all_columns.update(columns)"
RECURSIVE Unite(_, _)
Unite(all_columns, sets) ==
    IF sets = <<>> THEN all_columns
    ELSE Unite(all_columns \cup Head(sets), Tail(sets))

\* mutant: only the first word that resolves contributes
SearchEngine_union_search_first(F, words, elapsed) ==
    IF words = <<>> \/ WordColumns(F, words) = <<>> THEN {None}
    ELSE LET all_columns == Head(WordColumns(F, words))
         IN  {Some([query_words |-> words,
                    union_columns |-> o,
                    operation |-> "OR",
                    execution_time_ms |-> elapsed,
                    total_unique_columns |-> Cardinality(all_columns)]) :
                 o \in Orderings(all_columns)}

\* the values the call may return
SearchEngine_union_search(F, words, elapsed) ==
    IF words = <<>> THEN {None}
    ELSE LET all_columns == Unite({}, WordColumns(F, words))
         IN  IF all_columns = {} THEN {None}
             ELSE {Some([query_words |-> words,
                         union_columns |-> o,
                         operation |-> "OR",
                         execution_time_ms |-> elapsed,
                         total_unique_columns |-> Cardinality(all_columns)]) :
                      o \in Orderings(all_columns)}

\* the sample dicts, a word made of a delimiter only, and a dict whose entries
\* have an empty word and an empty column list
LookupMappings ==
    EngineMappings
        \cup {<<[key |-> <<"-">>, value |-> <<"c2">>]>>,
              <<[key |-> <<>>, value |-> <<"c1">>],
                [key |-> <<"b">>, value |-> <<>>]>>}

\* column identifiers, one of them never indexed
LookupColumns == Columns \cup {"c3"}

\* word lists: empty, one word, two indexed words, case variants, an empty
\* word, an alias next to a word that is never indexed
WordLists ==
    {<<>>,
     <<<<"a">>>>,
     <<<<"a">>, <<"a", "d", "b">>>>,
     <<<<"A">>, <<"a">>>>,
     <<<<>>, <<"b">>>>,
     <<<<"-", "a">>, <<"b">>>>}

\* empty and whitespace-only queries
BlankQueries == {<<>>, <<" ">>, <<"\t", " ">>}

get_columns(word) ==
    /\ last' = [op |-> "get_columns", word |-> word,
                ret |-> ForwardIndex_get_columns(index_manager.forward_index, word)]
    /\ UNCHANGED <<index_manager, stats, calls>>

reverse_search(column_id, elapsed) ==
    /\ last' = [op |-> "reverse_search", column_id |-> column_id,
                ret |-> SearchEngine_reverse_search(index_manager.reverse_index,
                                                    column_id, elapsed)]
    /\ UNCHANGED <<index_manager, stats, calls>>

intersection_search(words, elapsed) ==
    /\ \E ret \in SearchEngine_intersection_search(index_manager.forward_index,
                                                    words, elapsed) :
           last' = [op |-> "intersection_search", words |-> words, ret |-> ret]
    /\ UNCHANGED <<index_manager, stats, calls>>

union_search(words, elapsed) ==
    /\ \E ret \in SearchEngine_union_search(index_manager.forward_index,
                                             words, elapsed) :
           last' = [op |-> "union_search", words |-> words, ret |-> ret]
    /\ UNCHANGED <<index_manager, stats, calls>>

NextLookup ==
    \/ \E mappings \in LookupMappings : load_mappings(mappings)
    \/ \E word \in Words : remove_mapping(word)
    \/ \E word \in Words : get_columns(word)
    \/ \E column_id \in LookupColumns, elapsed \in ElapsedTimes :
           reverse_search(column_id, elapsed)
    \/ \E words \in WordLists, elapsed \in ElapsedTimes :
           intersection_search(words, elapsed)
    \/ \E words \in WordLists, elapsed \in ElapsedTimes :
           union_search(words, elapsed)
    \/ \E query \in BlankQueries, elapsed \in ElapsedTimes :
           search(query, 10, TRUE, 5, elapsed)
    \/ engine_clear

SpecLookup == Init /\ [][NextLookup]_vars

(***************************************************************************)
(* The readers and the lists they hand out                                 *)
(***************************************************************************)

\* mutant: the list of the index itself is handed out
ListCopy_same_object(owner, items) == [items |-> items, owner |-> Some(owner)]

\* a_list.copy(): a list object of its own with the same items; owner names
\* the index entry whose list object this is, None when it is no index's list
ListCopy(owner, items) == [items |-> items, owner |-> None]

\* the key under which get_columns(word) finds its list
ResolvedWord(F, word) ==
    IF word \in DictKeys(F.index) THEN word ELSE F.normalized_index[normalize(word)]

\* the list objects the last call handed to its caller
ReturnedLists ==
    IF last.op = "reverse_search" /\ last.ret # None
    THEN <<ListCopy([index |-> "reverse", key |-> last.column_id], last.ret[1].words)>>
    ELSE IF last.op = "intersection_search" /\ last.ret # None
    THEN <<[items |-> last.ret[1].intersection_columns, owner |-> None]>>
    ELSE IF last.op = "union_search" /\ last.ret # None
    THEN <<[items |-> last.ret[1].union_columns, owner |-> None]>>
    ELSE IF last.op = "search" /\ last.ret # None
    THEN [i \in 1..Len(last.ret[1].results) |->
              ListCopy([index |-> "forward",
                        key |-> ResolvedWord(index_manager.forward_index,
                                             last.ret[1].results[i].word)],
                       last.ret[1].results[i].columns)]
    ELSE <<>>

\* list.append(x) on a list object: the index entry that is this object
\* changes with it
ListAppend(M, list, x) ==
    IF list.owner = None THEN M
    ELSE IF list.owner[1].index = "forward"
    THEN [M EXCEPT !.forward_index.index =
              DictSet(@, list.owner[1].key, Append(list.items, x))]
    ELSE [M EXCEPT !.reverse_index.index =
              MapSet(@, list.owner[1].key, Append(list.items, x))]

\* the caller appends to a list it was handed
caller_appends(i, x) ==
    /\ i \in 1..Len(ReturnedLists)
    /\ index_manager' = ListAppend(index_manager, ReturnedLists[i], x)
    /\ last' = [op |-> "caller_appends", of |-> last.op,
                items |-> Append(ReturnedLists[i].items, x)]
    /\ UNCHANGED <<stats, calls>>

ReaderQueries == {<<>>, <<"a">>, <<"a", "b", "c">>}

NextReaders ==
    \/ \E mappings \in EngineMappings : load_mappings(mappings)
    \/ \E query \in ReaderQueries : search(query, 10, TRUE, 5, 0)
    \/ \E column_id \in LookupColumns : reverse_search(column_id, 0)
    \/ \E words \in WordLists : intersection_search(words, 0)
    \/ \E words \in WordLists : union_search(words, 0)
    \/ \E i \in 1..Len(ReturnedLists) : caller_appends(i, "x")

SpecReaders == Init /\ [][NextReaders]_vars

(***************************************************************************)
(* IndexManager called from several threads: calls[t] is the frame of the  *)
(* call thread t is in, one step per statement of the method               *)
(***************************************************************************)

Threads == {"t1", "t2"}

\* every thread works on the same word, always with the same column list
ThreadWords == {<<"a">>}

ThreadColumns == <<"c1">>

Mutations == {"add_mapping", "remove_mapping", "update_mapping", "clear"}

\* a thread that is in no call; ret is what its last call returned
Returned(op, ret, locked) ==
    [op |-> op, phase |-> "", pc |-> "done", word |-> <<>>, columns |-> <<>>,
     found |-> <<>>, ret |-> ret, locked |-> locked]

InitThreads ==
    /\ index_manager = IndexManager_init
    /\ stats = Stats_init
    /\ last = NoCall
    /\ calls = [t \in Threads |-> Returned("", FALSE, FALSE)]

\* "if self._lock: return"
IndexManager_passes(M) == ~M.lock

\* "self._lock = True"
IndexManager_acquire(M) == [M EXCEPT !.lock = TRUE]

\* mutant: the flag stays as it is
IndexManager_release_kept(M) == M

\* "finally: self._lock = False"
IndexManager_release(M) == [M EXCEPT !.lock = FALSE]

\* remove_mapping has returned ret: the call is over, or update_mapping goes
\* on with add_mapping
AfterRemove(frame, ret) ==
    IF frame.op = "update_mapping"
    THEN [frame EXCEPT !.phase = "add", !.pc = "test", !.found = <<>>]
    ELSE Returned(frame.op, ret, frame.locked)

\* the flag test a method starts with
AfterTest(frame, M) ==
    IF IndexManager_passes(M)
    THEN [frame EXCEPT !.pc = IF frame.phase = "remove" THEN "lookup" ELSE "set"]
    ELSE IF frame.phase = "remove" THEN AfterRemove(frame, FALSE)
    ELSE Returned(frame.op, FALSE, frame.locked)

\* an add_mapping that has not written the forward index yet
PendingAdd(frame) == frame.op \in {"add_mapping", "update_mapping"} /\ frame.pc # "done"

\* thread t calls add_mapping, remove_mapping or update_mapping and runs its
\* first statement, the flag test
thread_call(t, op, word, columns) ==
    /\ calls[t].pc = "done"
    /\ op \in {"add_mapping", "update_mapping"} =>
           index_manager.forward_index.total_mappings
               + Len(columns) * (1 + Cardinality({u \in Threads : PendingAdd(calls[u])}))
               <= MaxMappings
    /\ calls' = [calls EXCEPT ![t] =
           AfterTest([op |-> op,
                      phase |-> IF op = "add_mapping" THEN "add" ELSE "remove",
                      pc |-> "test", word |-> word,
                      columns |-> IF op = "remove_mapping" THEN <<>> ELSE columns,
                      found |-> <<>>, ret |-> FALSE, locked |-> index_manager.lock],
                     index_manager)]
    /\ UNCHANGED <<index_manager, stats, last>>

\* thread t calls clear and runs its first statement, forward_index.clear()
thread_call_clear(t) ==
    /\ calls[t].pc = "done"
    /\ index_manager' =
           [index_manager EXCEPT !.forward_index = ForwardIndex_clear(@)]
    /\ calls' = [calls EXCEPT ![t] =
           [op |-> "clear", phase |-> "clear", pc |-> "reverse", word |-> <<>>,
            columns |-> <<>>, found |-> <<>>, ret |-> FALSE,
            locked |-> index_manager.lock]]
    /\ UNCHANGED <<stats, last>>

\* the flag test of the add_mapping inside update_mapping
thread_test(t) ==
    /\ calls[t].pc = "test"
    /\ calls' = [calls EXCEPT ![t] = AfterTest(@, index_manager)]
    /\ UNCHANGED <<index_manager, stats, last>>

\* "columns = self.forward_index.get_columns(word); if not columns: return False"
thread_lookup(t) ==
    /\ calls[t].pc = "lookup"
    /\ LET columns == ForwardIndex_get_columns(index_manager.forward_index,
                                               calls[t].word)
       IN  calls' = [calls EXCEPT ![t] =
               IF Falsy(columns) THEN AfterRemove(@, FALSE)
               ELSE [@ EXCEPT !.pc = "set", !.found = columns[1]]]
    /\ UNCHANGED <<index_manager, stats, last>>

thread_set(t) ==
    /\ calls[t].pc = "set"
    /\ index_manager' = IndexManager_acquire(index_manager)
    /\ calls' = [calls EXCEPT ![t].pc = "forward"]
    /\ UNCHANGED <<stats, last>>

\* the write to the forward index
thread_forward(t) ==
    /\ calls[t].pc = "forward"
    /\ index_manager' =
           [index_manager EXCEPT !.forward_index =
                IF calls[t].phase = "add"
                THEN ForwardIndex_add_mapping(@, calls[t].word, calls[t].columns)
                ELSE ForwardIndex_remove_mapping(@, calls[t].word)]
    /\ calls' = [calls EXCEPT ![t].pc = "reverse"]
    /\ UNCHANGED <<stats, last>>

\* the write to the reverse index; it is the last statement of clear
thread_reverse(t) ==
    /\ calls[t].pc = "reverse"
    /\ index_manager' =
           [index_manager EXCEPT !.reverse_index =
                IF calls[t].phase = "add"
                THEN ReverseIndex_add_mapping(@, calls[t].word, calls[t].columns)
                ELSE IF calls[t].phase = "remove"
                THEN ReverseIndex_remove_mapping(@, calls[t].word, calls[t].found)
                ELSE ReverseIndex_clear(@)]
    /\ calls' = [calls EXCEPT ![t] =
           IF calls[t].phase = "clear" THEN Returned("clear", FALSE, @.locked)
           ELSE [@ EXCEPT !.pc = "unlock"]]
    /\ UNCHANGED <<stats, last>>

\* the finally clause; remove_mapping returns True through it
thread_unlock(t) ==
    /\ calls[t].pc = "unlock"
    /\ index_manager' = IndexManager_release(index_manager)
    /\ calls' = [calls EXCEPT ![t] =
           IF calls[t].phase = "remove" THEN AfterRemove(@, TRUE)
           ELSE Returned(@.op, FALSE, @.locked)]
    /\ UNCHANGED <<stats, last>>

NextThreads ==
    \E t \in Threads :
        \/ \E op \in Mutations \ {"clear"}, word \in ThreadWords :
               thread_call(t, op, word, ThreadColumns)
        \/ thread_call_clear(t)
        \/ thread_test(t)
        \/ thread_lookup(t)
        \/ thread_set(t)
        \/ thread_forward(t)
        \/ thread_reverse(t)
        \/ thread_unlock(t)

SpecThreads == InitThreads /\ [][NextThreads]_vars

(***************************************************************************)
(* TableRelationshipTraversal.traverse_relationships: calls is the frame   *)
(* of the one call, a step is one pass of its while loop                   *)
(***************************************************************************)

\* largest max_depth handed to traverse_relationships
MaxDepth == 2

TableNames == {"t1", "t2", "t3"}

\* the tables of a set as a list, in the order of the schema file
ListOf(S) == SelectSeq(<<"t1", "t2", "t3">>, LAMBDA t : t \in S)

\* schemas: every "references" graph over the tables, self-references and
\* cycles included, with "referenced_by" left empty or holding the reverse
\* edges
Schemas ==
    {[t \in TableNames |->
          [references |-> ListOf(refs[t]),
           referenced_by |-> IF mirrored THEN ListOf({u \in TableNames : t \in refs[u]})
                             ELSE <<>>]] :
         refs \in [TableNames -> SUBSET TableNames], mirrored \in BOOLEAN}

\* table_frequencies, in insertion order: empty, one table, a single maximum,
\* a shared maximum, and a table the schema does not have
Frequencies ==
    {<<>>,
     <<[key |-> "t1", value |-> 1]>>,
     <<[key |-> "t1", value |-> 1], [key |-> "t2", value |-> 2]>>,
     <<[key |-> "t3", value |-> 2], [key |-> "t1", value |-> 2]>>,
     <<[key |-> "t0", value |-> 3], [key |-> "t2", value |-> 3]>>}

TableRelationshipTraversal_extract_related_tables(schema, table_name) ==
    IF table_name \notin DOMAIN schema THEN <<>>
    ELSE schema[table_name].references \o schema[table_name].referenced_by

\* max(table_frequencies.values())
MaxFrequency(table_frequencies) ==
    CHOOSE m \in {table_frequencies[i].value : i \in 1..Len(table_frequencies)} :
        \A i \in 1..Len(table_frequencies) : table_frequencies[i].value <= m

InitialTables(table_frequencies) ==
    LET top == SelectSeq(table_frequencies,
                         LAMBDA e : e.value = MaxFrequency(table_frequencies))
    IN  [i \in 1..Len(top) |-> top[i].key]

\* mutant: a related table is appended whether or not it is queued or visited
Enqueue_unchecked(queue, visited, related_table, current_depth, max_depth) ==
    IF current_depth < max_depth
    THEN Append(queue, [table |-> related_table, depth |-> current_depth + 1])
    ELSE queue

\* the body of "for related_table in related_tables"
Enqueue(queue, visited, related_table, current_depth, max_depth) ==
    IF related_table \notin visited /\ current_depth < max_depth
    THEN IF \E i \in 1..Len(queue) : queue[i].table = related_table THEN queue
         ELSE Append(queue, [table |-> related_table, depth |-> current_depth + 1])
    ELSE queue

RECURSIVE EnqueueAll(_, _, _, _, _)
EnqueueAll(queue, visited, related_tables, current_depth, max_depth) ==
    IF related_tables = <<>> THEN queue
    ELSE EnqueueAll(Enqueue(queue, visited, Head(related_tables),
                            current_depth, max_depth),
                    visited, Tail(related_tables), current_depth, max_depth)

InitTraversal ==
    /\ index_manager = IndexManager_init
    /\ stats = Stats_init
    /\ last = NoCall
    /\ calls \in {[schema |-> schema, table_frequencies |-> table_frequencies,
                   max_depth |-> max_depth, pc |-> "call", queue |-> <<>>,
                   visited |-> {}, relevant_tables |-> <<>>, ret |-> <<>>] :
                     schema \in Schemas, table_frequencies \in Frequencies,
                     max_depth \in 0..MaxDepth}

\* the statements before the loop
traverse_start ==
    /\ calls.pc = "call"
    /\ calls' =
           IF calls.table_frequencies = <<>> THEN [calls EXCEPT !.pc = "done"]
           ELSE LET initial_tables == InitialTables(calls.table_frequencies)
                IN  [calls EXCEPT
                         !.pc = "loop",
                         !.queue = [i \in 1..Len(initial_tables) |->
                                        [table |-> initial_tables[i], depth |-> 0]]]
    /\ UNCHANGED <<index_manager, stats, last>>

\* one pass of "while queue"
traverse_iteration ==
    /\ calls.pc = "loop"
    /\ calls.queue # <<>>
    /\ LET current_table == Head(calls.queue).table
           current_depth == Head(calls.queue).depth
           queue == Tail(calls.queue)
       IN  calls' =
               IF current_table \in calls.visited THEN [calls EXCEPT !.queue = queue]
               ELSE LET visited == calls.visited \cup {current_table}
                    IN  [calls EXCEPT
                             !.visited = visited,
                             !.relevant_tables =
                                 IF current_table \in Range(@) THEN @
                                 ELSE Append(@, current_table),
                             !.queue =
                                 EnqueueAll(queue, visited,
                                     TableRelationshipTraversal_extract_related_tables(
                                         calls.schema, current_table),
                                     current_depth, calls.max_depth)]
    /\ UNCHANGED <<index_manager, stats, last>>

\* the loop ends and relevant_tables is returned
traverse_return ==
    /\ calls.pc = "loop"
    /\ calls.queue = <<>>
    /\ calls' = [calls EXCEPT !.pc = "done", !.ret = calls.relevant_tables]
    /\ UNCHANGED <<index_manager, stats, last>>

NextTraversal ==
    \/ traverse_start
    \/ traverse_iteration
    \/ traverse_return

\* the call runs on its thread without being held up
SpecTraversal == InitTraversal /\ [][NextTraversal]_vars /\ WF_vars(NextTraversal)

(***************************************************************************)
(* FuzzyMatcher.find_best_match: calls is the frame of the one call        *)
(***************************************************************************)

\* longest candidate list handed to find_best_match
MaxCandidates == 2

\* a >= b and a > b for confidences
FracGE(a, b) == a.num * b.den >= b.num * a.den

FracGT(a, b) == a.num * b.den > b.num * a.den

\* the first largest confidence of a non-empty list, as max() finds it
RECURSIVE FirstMax(_)
FirstMax(ratios) ==
    IF Len(ratios) = 1 THEN ratios[1]
    ELSE LET rest == FirstMax(Tail(ratios))
         IN  IF FracGE(Head(ratios).confidence, rest.confidence) THEN Head(ratios)
             ELSE rest

\* "a in b" for strings
IsSubstring(a, b) ==
    \E i \in 0..(Len(b) - Len(a)) : SubSeq(b, i + 1, i + Len(a)) = a

\* fuzz.ratio / 100: 2 LCS / (len a + len b)
Ratio(a, b) ==
    IF Len(a) + Len(b) = 0 THEN Exactly(1)
    ELSE [num |-> 2 * LCS(a, b), den |-> Len(a) + Len(b)]

\* the pieces of the longer string fuzz.partial_ratio aligns the shorter one
\* with: prefixes, windows of its length, suffixes, each kept only if its
\* outer character occurs in the shorter string
PartialWindows(shorter, longer) ==
    LET len1 == Len(shorter)
        len2 == Len(longer)
    IN  {SubSeq(longer, 1, i) : i \in {j \in 1..(len1 - 1) : longer[j] \in Range(shorter)}}
            \cup {SubSeq(longer, i + 1, i + len1) :
                      i \in {j \in 0..(len2 - len1 - 1) :
                                 longer[j + len1] \in Range(shorter)}}
            \cup {SubSeq(longer, i + 1, len2) :
                      i \in {j \in (len2 - len1)..(len2 - 1) :
                                 longer[j + 1] \in Range(shorter)}}

PartialScore(shorter, longer) ==
    LET scores == {Ratio(shorter, w) : w \in PartialWindows(shorter, longer)}
    IN  IF scores = {} THEN Exactly(0)
        ELSE CHOOSE s \in scores : \A r \in scores : FracGE(s, r)

\* fuzz.partial_ratio / 100
PartialRatio(a, b) ==
    IF a = <<>> /\ b = <<>> THEN Exactly(1)
    ELSE IF a = <<>> \/ b = <<>> THEN Exactly(0)
    ELSE LET shorter == IF Len(a) <= Len(b) THEN a ELSE b
             longer == IF Len(a) <= Len(b) THEN b ELSE a
             score == PartialScore(shorter, longer)
             back == PartialScore(longer, shorter)
         IN  IF Len(a) = Len(b) /\ FracGT(Exactly(1), score) /\ FracGT(back, score)
             THEN back ELSE score

\* fuzz.token_sort_ratio / 100 and fuzz.token_set_ratio / 100 of normalized
\* strings, which hold no whitespace and so are one token each
TokenSortRatio(a, b) == Ratio(a, b)

TokenSetRatio(a, b) == IF a = <<>> \/ b = <<>> THEN Exactly(0) ELSE Ratio(a, b)

\* [confidence, match_type, edit_distance] for a normalized query and a
\* normalized candidate
FuzzyMatcher_calculate_fuzzy_match(query, candidate) ==
    LET distance == Levenshtein(query, candidate)
        max_len == Max(Len(query), Len(candidate))
        levenshtein_ratio ==
            IF max_len > 0 THEN [num |-> max_len - distance, den |-> max_len]
            ELSE Exactly(0)
        best == FirstMax(
            <<[confidence |-> levenshtein_ratio, match_type |-> "fuzzy_levenshtein",
               edit_distance |-> distance],
              [confidence |-> PartialRatio(query, candidate),
               match_type |-> "fuzzy_partial", edit_distance |-> distance],
              [confidence |-> TokenSortRatio(query, candidate),
               match_type |-> "fuzzy_token_sort", edit_distance |-> distance],
              [confidence |-> TokenSetRatio(query, candidate),
               match_type |-> "fuzzy_token_set", edit_distance |-> distance]>>)
        boosted == [num |-> 10 * best.confidence.num + best.confidence.den,
                    den |-> 10 * best.confidence.den]
    IN  IF IsSubstring(query, candidate) \/ IsSubstring(candidate, query)
        THEN [confidence |-> IF FracGE(boosted, Exactly(1)) THEN Exactly(1) ELSE boosted,
              match_type |-> "fuzzy_substring",
              edit_distance |-> IF IsSubstring(query, candidate)
                                THEN Len(candidate) - Len(query)
                                ELSE Len(query) - Len(candidate)]
        ELSE best

\* FuzzyMatcher(threshold=0.6), in hundredths
FuzzyMatcher_threshold == 60

\* "threshold or self.threshold": None and 0.0 are both falsy
ThresholdOr(threshold) ==
    IF threshold = None \/ threshold[1] = 0 THEN FuzzyMatcher_threshold
    ELSE threshold[1]

\* the loop over the candidates and the return after it; best.match is None
\* or the best candidate so far
RECURSIVE ScanCandidates(_, _, _, _)
ScanCandidates(normalized_query, candidates, threshold, best) ==
    IF candidates = <<>>
    THEN IF best.match # None /\ best.match[1] # <<>>
         THEN Some([word |-> best.match[1], confidence |-> best.confidence,
                    match_type |-> best.match_type,
                    edit_distance |-> best.edit_distance])
         ELSE None
    ELSE LET candidate == Head(candidates)
             normalized_candidate == normalize(candidate)
             m == FuzzyMatcher_calculate_fuzzy_match(normalized_query,
                                                     normalized_candidate)
         IN  IF normalized_query = normalized_candidate
             THEN Some([word |-> candidate, confidence |-> Exactly(1),
                        match_type |-> "exact", edit_distance |-> 0])
             ELSE ScanCandidates(
                      normalized_query, Tail(candidates), threshold,
                      IF /\ FracGT(m.confidence, best.confidence)
                         /\ FracGE(m.confidence, [num |-> threshold, den |-> 100])
                      THEN [match |-> Some(candidate), confidence |-> m.confidence,
                            match_type |-> m.match_type,
                            edit_distance |-> m.edit_distance]
                      ELSE best)

FuzzyMatcher_find_best_match(query, candidates, threshold) ==
    IF query = <<>> \/ candidates = <<>> THEN None
    ELSE ScanCandidates(normalize(query), candidates, ThresholdOr(threshold),
                        [match |-> None, confidence |-> Exactly(0),
                         match_type |-> "no_match", edit_distance |-> 0])

\* queries: empty, a word, a case variant, a delimiter only
MatcherQueries == {<<>>, <<"a", "b", "c">>, <<"A", "B", "C">>, <<"-">>}

\* candidates: the word and a variant of it, two words at the same distance,
\* a substring, a distant word, a delimiter only
MatcherWords ==
    {<<"a", "b", "c">>, <<"a", "b", "-", "c">>, <<"a", "b", "d">>, <<"a", "b", "h">>,
     <<"a", "b">>, <<"h", "d", "c">>, <<"-">>}

CandidateLists == UNION {[1..n -> MatcherWords] : n \in 0..MaxCandidates}

\* threshold arguments: absent, the ends of the range, the tests' values
Thresholds == {None, Some(0), Some(30), Some(90), Some(100)}

InitMatcher ==
    /\ index_manager = IndexManager_init
    /\ stats = Stats_init
    /\ last = NoCall
    /\ calls \in {[query |-> query, candidates |-> candidates, threshold |-> threshold,
                   pc |-> "call", ret |-> None] :
                     query \in MatcherQueries, candidates \in CandidateLists,
                     threshold \in Thresholds}

find_best_match ==
    /\ calls.pc = "call"
    /\ calls' = [calls EXCEPT
                     !.pc = "done",
                     !.ret = FuzzyMatcher_find_best_match(calls.query, calls.candidates,
                                                          calls.threshold)]
    /\ UNCHANGED <<index_manager, stats, last>>

NextMatcher == find_best_match

SpecMatcher == InitMatcher /\ [][NextMatcher]_vars

(***************************************************************************)
(* The TextNormalizer used on its own                                      *)
(***************************************************************************)

\* upper and lower case, the delimiters, and a character that compatibility
\* decomposition changes
Chars == {"A", "a", "-", "_", " ", "U210B"}

Texts == UNION {[1..n -> Chars] : n \in 0..MaxTextLen}

InitNormalize ==
    /\ index_manager = IndexManager_init
    /\ stats = Stats_init
    /\ last \in {[op |-> "text", text |-> text] : text \in Texts}
    /\ calls = NoFrames

\* normalize applied to the text given, and then to what it returned
normalize_call ==
    /\ last.op \in {"text", "normalize"}
    /\ LET text == IF last.op = "text" THEN last.text ELSE last.ret
       IN  last' = [op |-> "normalize", text |-> text, ret |-> normalize(text),
                    of_output |-> last.op = "normalize"]
    /\ UNCHANGED <<index_manager, stats, calls>>

NextNormalize == normalize_call

SpecNormalize == InitNormalize /\ [][NextNormalize]_vars

(***************************************************************************)
(* Properties of the indexes                                               *)
(***************************************************************************)

F_index == index_manager.forward_index.index

R_index == index_manager.reverse_index.index

InColumn(word, column) ==
    LET words == ReverseIndex_get_words(index_manager.reverse_index, column)
    IN  words # None /\ word \in Range(words[1])

\* C1: every word of the forward index is listed, in the reverse index, under
\* every column of its stored column list.
C1_ForwardInReverse ==
    \A i \in 1..Len(F_index) :
        \A column \in Range(F_index[i].value) : InColumn(F_index[i].key, column)

C1_Witness ==
    /\ last.op = "remove_mapping"
    /\ last.ret = TRUE
    /\ \E i \in 1..Len(F_index) : Len(F_index[i].value) = 2

\* C2: every word listed in the reverse index under a column is a key of the
\* forward index whose stored column list holds that column.
C2_ReverseInForward ==
    \A column \in DOMAIN R_index :
        \A word \in Range(R_index[column]) :
            /\ word \in DictKeys(F_index)
            /\ column \in Range(DictGet(F_index, word))

\* C3: a remove_mapping(word) that returns True leaves word unresolvable and
\* in no reverse-index list; one that returns False found the word
\* unresolvable (or the flag set) and changed neither index.
C3_RemoveMapping ==
    [][last'.op = "remove_mapping" =>
         /\ last'.ret = TRUE =>
              /\ ForwardIndex_get_columns(index_manager'.forward_index, last'.word) = None
              /\ \A column \in DOMAIN index_manager'.reverse_index.index :
                     last'.word \notin Range(index_manager'.reverse_index.index[column])
         /\ last'.ret = FALSE =>
              /\ \/ index_manager.lock
                 \/ ForwardIndex_get_columns(index_manager.forward_index, last'.word) = None
              /\ index_manager' = index_manager]_vars

\* C4: after update_mapping(w, C) with a word w and non-empty C, get_columns(w)
\* is C, w is listed under every column of C and under no other column.
C4_UpdateMapping ==
    (last.op = "update_mapping" /\ last.word # <<>> /\ last.columns # <<>>) =>
        /\ ForwardIndex_get_columns(index_manager.forward_index, last.word)
               = Some(last.columns)
        /\ \A column \in Range(last.columns) : InColumn(last.word, column)
        /\ \A column \in DOMAIN R_index \ Range(last.columns) :
               last.word \notin Range(R_index[column])

\* C5: every column entry of the reverse index has a non-empty word list in
\* which no word occurs twice.
C5_ReverseListsProper ==
    \A column \in DOMAIN R_index :
        /\ R_index[column] # <<>>
        /\ \A i, j \in 1..Len(R_index[column]) :
               R_index[column][i] = R_index[column][j] => i = j

C5_Witness ==
    /\ last.op = "reverse_remove_mapping"
    /\ DOMAIN R_index = {"c2"}
    /\ Len(R_index["c2"]) = 2

\* C6: get_columns(q) is not absent whenever the index holds a word whose
\* normalized form is normalize(q).
C6_VariantsResolve ==
    \A q \in Words :
        (\E word \in DictKeys(F_index) : normalize(word) = normalize(q)) =>
            ForwardIndex_get_columns(index_manager.forward_index, q) # None

(***************************************************************************)
(* Properties of search                                                    *)
(***************************************************************************)

Blank(query) == query = <<>> \/ StripSpaces(query) = <<>>

\* C7: total_queries is the sum of exact_matches, fuzzy_matches and
\* no_matches after any sequence of search and clear calls.
C7_CountersAddUp ==
    stats.total_queries
        = stats.exact_matches + stats.fuzzy_matches + stats.no_matches

\* C8: a search with an empty or whitespace-only query returns a response
\* with total_results 0, no results and exact_match false, and changes neither
\* the statistics nor the indexes.
C8_BlankQuery ==
    [][(last'.op = "search" /\ Blank(last'.query)) =>
           /\ last'.ret # None
           /\ last'.ret[1].total_results = 0
           /\ last'.ret[1].results = <<>>
           /\ last'.ret[1].exact_match = FALSE
           /\ stats' = stats
           /\ index_manager' = index_manager]_vars

\* the scan of the last search ran to its end and handed back a result list
Scanned == last.op = "search" /\ ~Blank(last.query) /\ last.raised # "SearchResult"

C10_MaxEditDistance ==
    last.op = "search" =>
        \A i \in 1..Len(last.results) :
            /\ last.results[i].edit_distance <= last.max_edit_distance
            /\ EditDistance(normalize(StripSpaces(last.query)),
                            normalize(last.results[i].word))
                   <= last.max_edit_distance

\* a search that found a word while another indexed word was too far away
C10_Witness ==
    /\ Scanned
    /\ last.results # <<>>
    /\ \E word \in DictKeys(F_index) :
           EditDistance(normalize(StripSpaces(last.query)), normalize(word))
               > last.max_edit_distance

\* q is w with one character deleted
OneDeleted(q, w) ==
    /\ Len(w) = Len(q) + 1
    /\ \E i \in 1..Len(w) : q = SubSeq(w, 1, i - 1) \o SubSeq(w, i + 1, Len(w))

FuzzyMatchTypes == {"fuzzy_levenshtein", "fuzzy_substring"}

\* C11: a search, with the default limits, for a query that is an indexed
\* word with one character deleted ("dat" against "date") finds that word with
\* edit_distance 1, a confidence above 0.7 and a fuzzy match_type, and
\* exact_match false.  Stated on the result list and the response fields that
\* search computes.
C11_SingleDeletion ==
    \A w \in DictKeys(F_index) :
        (/\ last.op = "search"
         /\ last.max_results = 10
         /\ last.max_edit_distance = 5
         /\ OneDeleted(StripSpaces(last.query), w)) =>
            /\ \E i \in 1..Len(last.results) :
                   /\ last.results[i].word = w
                   /\ last.results[i].edit_distance = 1
                   /\ 10 * last.results[i].confidence.num
                          > 7 * last.results[i].confidence.den
                   /\ last.results[i].match_type \in FuzzyMatchTypes
            /\ last.kwargs # None => last.kwargs[1].exact_match = FALSE

\* the index holds a word whose normalized form is that of the stripped query
VariantIndexed ==
    \E w \in DictKeys(F_index) : normalize(w) = normalize(StripSpaces(last.query))

\* C12: a search with max_results >= 1 for a query whose normalized form is
\* that of an indexed word has exact_match true and a first result with the
\* query's normalized form, match_type "exact", confidence 1.0,
\* edit_distance 0, no changes text and the columns stored for its word.
\* Stated on the result list and the response fields that search computes.
C12_VariantsExact ==
    (/\ last.op = "search"
     /\ ~Blank(last.query)
     /\ last.max_results >= 1
     /\ VariantIndexed) =>
        /\ last.kwargs # None
        /\ last.kwargs[1].exact_match = TRUE
        /\ last.results # <<>>
        /\ normalize(last.results[1].word) = normalize(StripSpaces(last.query))
        /\ last.results[1].match_type = "exact"
        /\ last.results[1].confidence = Exactly(1)
        /\ last.results[1].edit_distance = 0
        /\ last.results[1].changes = None
        /\ last.results[1].columns = DictGet(F_index, last.results[1].word)

RECURSIVE ConcatColumns(_)
ConcatColumns(results) ==
    IF results = <<>> THEN <<>>
    ELSE Head(results).columns \o ConcatColumns(Tail(results))

\* C14: a search that computes a non-empty result list builds its response
\* with total_unique_columns the set union of the results' columns and
\* total_all_columns their concatenation, duplicates kept.
C14_ColumnTotals ==
    (Scanned /\ last.results # <<>>) =>
        /\ last.kwargs # None
        /\ last.kwargs[1].total_unique_columns
               = {c \in Columns : \E i \in 1..Len(last.results) :
                                      c \in Range(last.results[i].columns)}
        /\ "total_all_columns" \in DOMAIN last.kwargs[1]
        /\ last.kwargs[1].total_all_columns = ConcatColumns(last.results)

\* no indexed word is within max_edit_distance of the last search's query
NothingWithinDistance ==
    Candidates(index_manager.forward_index, StripSpaces(last.query),
               last.max_edit_distance) = <<>>

\* C16: a search with a non-blank query that finds no word within
\* max_edit_distance returns a response with total_results 0, no results,
\* exact_match false, and suggestions that are a list when include_suggestions
\* is true and absent only when it is false.
C16_NoMatchResponse ==
    (last.op = "search" /\ ~Blank(last.query) /\ NothingWithinDistance) =>
        /\ last.ret # None
        /\ last.ret[1].total_results = 0
        /\ last.ret[1].results = <<>>
        /\ last.ret[1].exact_match = FALSE
        /\ last.include_suggestions => last.ret[1].suggestions # None
        /\ last.ret[1].suggestions = None => ~last.include_suggestions

(***************************************************************************)
(* Properties of the lookups                                               *)
(***************************************************************************)

\* word is empty, or no indexed word is word or has its normalized form
Malformed(word) ==
    \/ word = <<>>
    \/ \A w \in DictKeys(F_index) : w # word /\ normalize(w) # normalize(word)

\* C15: no core operation ends in an error for malformed input: add_mapping
\* with an empty word or an empty column list, remove_mapping and get_columns
\* with an empty or unresolvable word, reverse_search with an unknown column,
\* intersection_search and union_search with only such words, and search with
\* a blank query return none / an empty response and leave the engine as it
\* was.
C15_MalformedInput ==
    [][/\ \A word \in Words, columns \in ColumnLists :
              (word = <<>> \/ columns = <<>>) =>
                  IndexManager_add_mapping(index_manager, word, columns) = index_manager
       /\ (last'.op = "remove_mapping" /\ Malformed(last'.word)) =>
              /\ last'.ret = FALSE
              /\ index_manager' = index_manager /\ stats' = stats
       /\ (last'.op = "get_columns" /\ Malformed(last'.word)) =>
              /\ last'.ret = None
              /\ index_manager' = index_manager /\ stats' = stats
       /\ (last'.op = "reverse_search" /\ last'.column_id \notin DOMAIN R_index) =>
              /\ last'.ret = None
              /\ index_manager' = index_manager /\ stats' = stats
       /\ (/\ last'.op \in {"intersection_search", "union_search"}
           /\ \A i \in 1..Len(last'.words) : Malformed(last'.words[i])) =>
              /\ last'.ret = None
              /\ index_manager' = index_manager /\ stats' = stats
       /\ (last'.op = "search" /\ Blank(last'.query)) =>
              /\ last'.raised = ""
              /\ last'.ret # None
              /\ last'.ret[1].total_results = 0
              /\ last'.ret[1].results = <<>>
              /\ index_manager' = index_manager /\ stats' = stats]_vars

\* column is in the column list get_columns finds for word
ColumnOfWord(column, word) ==
    LET columns == ForwardIndex_get_columns(index_manager.forward_index, word)
    IN  columns # None /\ column \in Range(columns[1])

\* C17: every column intersection_search returns belongs to the column list
\* of every word of its input, so an input with a word that resolves to no
\* columns yields no common column.
C17_IntersectionCommon ==
    (last.op = "intersection_search" /\ last.ret # None) =>
        \A column \in Range(last.ret[1].intersection_columns) :
            \A i \in 1..Len(last.words) : ColumnOfWord(column, last.words[i])

\* the positions of the words of the last call that get_columns resolves
Resolving ==
    {i \in 1..Len(last.words) :
         ForwardIndex_get_columns(index_manager.forward_index, last.words[i]) # None}

\* C18: union_search returns none exactly when its list is empty or no word
\* resolves to columns; otherwise union_columns holds, once each, the columns
\* of the words that resolve, and total_unique_columns is their number.
C18_UnionOfResolved ==
    last.op = "union_search" =>
        LET expected ==
                UNION {Range(ForwardIndex_get_columns(index_manager.forward_index,
                                                      last.words[i])[1]) :
                          i \in Resolving}
        IN  /\ (last.ret = None) <=> (last.words = <<>> \/ Resolving = {})
            /\ last.ret # None =>
                   /\ Range(last.ret[1].union_columns) = expected
                   /\ Len(last.ret[1].union_columns) = Cardinality(expected)
                   /\ last.ret[1].total_unique_columns = Cardinality(expected)

\* a union over two words that resolve to different column lists
C18_Witness ==
    /\ last.op = "union_search"
    /\ last.ret # None
    /\ Resolving = {1, 2}
    /\ last.ret[1].total_unique_columns = 2
    /\ ForwardIndex_get_columns(index_manager.forward_index, last.words[1])
           # ForwardIndex_get_columns(index_manager.forward_index, last.words[2])

(***************************************************************************)
(* Properties of normalize                                                 *)
(***************************************************************************)

\* C19: normalize is idempotent: applied to its own output it returns that
\* output unchanged.
C19_NormalizeIdempotent ==
    (last.op = "normalize" /\ last.of_output) => last.ret = last.text

(***************************************************************************)
(* Properties of clear and the statistics                                  *)
(***************************************************************************)

Counters ==
    {"total_queries", "exact_matches", "fuzzy_matches", "no_matches",
     "total_execution_time", "cache_hits", "cache_misses"}

\* every word a call of the model can name
KnownWords == Words \cup UNION {DictKeys(mappings) : mappings \in EngineMappings}

\* C20: SearchEngine.clear leaves both indexes empty (no words, no columns,
\* every get_columns and get_words absent) and the seven statistics counters
\* at zero, so that get_stats reports every rate as 0; no other operation
\* lowers a statistics counter.
C20_ClearResets ==
    [][/\ last'.op = "clear" =>
              /\ ForwardIndex_get_all_words(index_manager'.forward_index) = <<>>
              /\ ReverseIndex_get_all_columns(index_manager'.reverse_index) = {}
              /\ \A word \in KnownWords :
                     ForwardIndex_get_columns(index_manager'.forward_index, word) = None
              /\ \A column \in Columns :
                     ReverseIndex_get_words(index_manager'.reverse_index, column) = None
              /\ DOMAIN stats' = Counters
              /\ \A counter \in Counters : stats'[counter] = 0
              /\ LET report == SearchEngine_get_stats(index_manager', stats')
                 IN  /\ report.average_execution_time_ms.num = 0
                     /\ report.exact_match_rate.num = 0
                     /\ report.fuzzy_match_rate.num = 0
                     /\ report.no_match_rate.num = 0
       /\ last'.op # "clear" =>
              \A counter \in Counters : stats'[counter] >= stats[counter]]_vars

\* a clear of an engine that held words and had counted queries
C20_Witness ==
    /\ last.op = "clear"
    /\ last.had_words
    /\ last.had_queries
    /\ F_index = <<>>
    /\ stats = Stats_init

\* the normalized query of the last search: search strips it, the scan
\* normalizes it
NormalizedQuery == normalize(StripSpaces(last.query))

Eligible ==
    {word \in DictKeys(F_index) :
         EditDistance(NormalizedQuery, normalize(word)) <= last.max_edit_distance}

ReturnedWords == {last.results[i].word : i \in 1..Len(last.results)}

F_aliases == index_manager.forward_index.normalized_index

\* C30: after any sequence of ForwardIndex add_mapping, remove_mapping and
\* clear calls, every target of the normalized-alias table is a key of the
\* forward index, and its column list is not empty.
C30_AliasTargetsIndexed ==
    \A normalized \in DOMAIN F_aliases :
        /\ F_aliases[normalized] \in DictKeys(F_index)
        /\ DictGet(F_index, F_aliases[normalized]) # <<>>

\* a word was removed while a word with another normalized form stays
\* indexed and aliased
C30_Witness ==
    /\ last.op = "forward_remove_mapping"
    /\ last.ret = TRUE
    /\ F_index # <<>>
    /\ \E normalized \in DOMAIN F_aliases :
           normalize(last.word) # normalized

F_total_mappings == index_manager.forward_index.total_mappings

\* C23: total_mappings of the ForwardIndex is cumulative: an add_mapping with
\* a non-empty word and a non-empty column list raises it by the length of
\* the list, also when the word is already indexed; remove_mapping never
\* lowers it; only clear lowers it, to 0. total_words is the number of keys
\* of the index after every call.
C23_CumulativeMappings ==
    [][/\ (/\ last'.op = "forward_add_mapping"
           /\ last'.word # <<>>
           /\ last'.columns # <<>>) =>
              F_total_mappings' = F_total_mappings + Len(last'.columns)
       /\ last'.op = "forward_remove_mapping" =>
              F_total_mappings' >= F_total_mappings
       /\ F_total_mappings' < F_total_mappings =>
              last'.op = "forward_clear" /\ F_total_mappings' = 0
       /\ ForwardIndex_total_words(index_manager'.forward_index)
              = Cardinality(DictKeys(index_manager'.forward_index.index))]_vars

\* three columns were added over several calls and every word was removed
\* again: the index is empty and the counter still holds 3
C23_Witness ==
    /\ last.op = "forward_remove_mapping"
    /\ last.ret = TRUE
    /\ F_index = <<>>
    /\ F_total_mappings = 3
    /\ ForwardIndex_total_words(index_manager.forward_index) = 0

(***************************************************************************)
(* Properties of the readers                                               *)
(***************************************************************************)

Readers == {"search", "reverse_search", "intersection_search", "union_search"}

\* C21: search, reverse_search, intersection_search and union_search leave
\* the forward index, its alias table and the reverse index as they were,
\* and so does an append to a list one of them returned.
C21_ReadersLeaveIndex ==
    [][last'.op \in Readers \cup {"caller_appends"} =>
           /\ index_manager'.forward_index.index = index_manager.forward_index.index
           /\ index_manager'.forward_index.normalized_index
                  = index_manager.forward_index.normalized_index
           /\ index_manager'.reverse_index = index_manager.reverse_index]_vars

\* the caller appended to the word list reverse_search returned for a column
\* that is still indexed with the words it had
C21_Witness ==
    /\ last.op = "caller_appends"
    /\ last.of = "reverse_search"
    /\ \E column \in DOMAIN R_index : Append(R_index[column], "x") = last.items

(***************************************************************************)
(* Properties of the IndexManager under concurrent callers                 *)
(***************************************************************************)

ForwardPairs ==
    UNION {{<<F_index[i].key, F_index[i].value[j]>> : j \in 1..Len(F_index[i].value)} :
               i \in 1..Len(F_index)}

ReversePairs ==
    UNION {{<<R_index[column][j], column>> : j \in 1..Len(R_index[column])} :
               column \in DOMAIN R_index}

\* no thread is inside a mutation
Quiescent == \A t \in Threads : calls[t].pc = "done"

\* C24: with two threads calling the IndexManager mutations, the forward and
\* the reverse index hold the same (word, column) pairs in every state in
\* which no mutation is in flight.
C24_QuiescentAgree == Quiescent => ForwardPairs = ReversePairs

\* thread t takes the step
Steps(t) == calls'[t] # calls[t]

\* C22: a call to add_mapping, remove_mapping, update_mapping or clear that
\* is made while the flag is set changes neither the forward index, nor its
\* alias table, nor the reverse index, and returns False / nothing.
C22_LockedCallsNoOp ==
    [][\A t \in Threads :
           (Steps(t) /\ calls'[t].locked) =>
               /\ index_manager'.forward_index = index_manager.forward_index
               /\ index_manager'.reverse_index = index_manager.reverse_index
               /\ calls'[t].ret = FALSE]_vars

\* thread t is between its "self._lock = True" and its "self._lock = False"
InSection(t) == calls[t].pc \in {"forward", "reverse", "unlock"} /\ calls[t].op # "clear"

RECURSIVE ReachableWithin(_, _, _)
ReachableWithin(schema, S, hops) ==
    IF hops = 0 THEN S
    ELSE LET near == ReachableWithin(schema, S, hops - 1)
         IN  near \cup UNION {Range(TableRelationshipTraversal_extract_related_tables(
                                        schema, t)) : t \in near}

QueuedTables == [i \in 1..Len(calls.queue) |-> calls.queue[i].table]

\* C29: for every schema and every non-empty table_frequencies the call
\* returns; what it returns holds, each once, exactly the tables at most
\* max_depth hops from the tables of maximum frequency; and the queue never
\* holds a table twice or a table that is already visited.
C29_TraversalTerminates ==
    /\ <>(calls.pc = "done")
    /\ [](/\ \A i, j \in 1..Len(QueuedTables) :
                 QueuedTables[i] = QueuedTables[j] => i = j
          /\ Range(QueuedTables) \cap calls.visited = {}
          /\ (calls.pc = "done" /\ calls.table_frequencies # <<>>) =>
                 /\ Range(calls.ret)
                        = ReachableWithin(calls.schema,
                                          Range(InitialTables(calls.table_frequencies)),
                                          calls.max_depth)
                 /\ Cardinality(Range(calls.ret)) = Len(calls.ret))

\* a traversal over a cycle through all three tables, one of which refers to
\* itself, has returned the three tables
C29_Witness ==
    /\ calls.pc = "done"
    /\ Len(calls.ret) = 3
    /\ calls.max_depth = 2
    /\ "t1" \in Range(calls.schema["t1"].references)
    /\ "t2" \in Range(calls.schema["t1"].references)
    /\ "t3" \in Range(calls.schema["t2"].references)
    /\ "t1" \in Range(calls.schema["t3"].references)
    /\ calls.table_frequencies = <<[key |-> "t1", value |-> 1]>>

(***************************************************************************)
(* Properties of find_best_match                                           *)
(***************************************************************************)

\* the match of the call's query with its i-th candidate
MatchOf(i) ==
    FuzzyMatcher_calculate_fuzzy_match(normalize(calls.query),
                                       normalize(calls.candidates[i]))

\* the threshold of the call: the argument, the instance threshold without one
ThresholdOfCall ==
    IF calls.threshold = None THEN FuzzyMatcher_threshold ELSE calls.threshold[1]

ExactCandidates ==
    {i \in 1..Len(calls.candidates) :
         normalize(calls.candidates[i]) = normalize(calls.query)}

ReachingCandidates ==
    {i \in 1..Len(calls.candidates) :
         FracGE(MatchOf(i).confidence, [num |-> ThresholdOfCall, den |-> 100])}

Earliest(S) == CHOOSE i \in S : \A j \in S : i <= j

\* C28: find_best_match returns (candidate, 1.0, "exact", 0) for the first
\* candidate whose normalized form equals the normalized query; without one
\* it returns the earliest candidate of maximal confidence among those whose
\* confidence reaches the threshold, and None when none reaches it.
C28_FirstBestMatch ==
    calls.pc = "done" =>
        IF ExactCandidates # {}
        THEN calls.ret = Some([word |-> calls.candidates[Earliest(ExactCandidates)],
                               confidence |-> Exactly(1), match_type |-> "exact",
                               edit_distance |-> 0])
        ELSE IF ReachingCandidates = {} THEN calls.ret = None
        ELSE LET best == Earliest({i \in ReachingCandidates :
                                       \A j \in ReachingCandidates :
                                           FracGE(MatchOf(i).confidence,
                                                  MatchOf(j).confidence)})
             IN  calls.ret = Some([word |-> calls.candidates[best],
                                   confidence |-> MatchOf(best).confidence,
                                   match_type |-> MatchOf(best).match_type,
                                   edit_distance |-> MatchOf(best).edit_distance])

====
